---- MODULE Spec2Model ----
(***************************************************************************)
(* A model of ieshan/dbro: the ConnectionManager (manager.go), the SQL     *)
(* statement splitter (migration.go) and the dialect table operations      *)
(* (flush.go, drop).                                                       *)
(*                                                                         *)
(* SQL text is a sequence of one-character strings, so that trimming,      *)
(* prefix tests and the character scan of the splitter are computed as the *)
(* code computes them.                                                     *)
(***************************************************************************)
EXTENDS Integers, Sequences, FiniteSets, TLC

(***************************************************************************)
(* strings helpers used by migration.go (package strings of Go)            *)
(***************************************************************************)

\* unicode.IsSpace restricted to the characters of the model
IsSpace(c) == c \in {" ", "\n", "\t"}

RECURSIVE TrimLeft(_)
TrimLeft(s) ==
    IF s = <<>> THEN <<>>
    ELSE IF IsSpace(Head(s)) THEN TrimLeft(Tail(s)) ELSE s

RECURSIVE TrimRight(_)
TrimRight(s) ==
    IF s = <<>> THEN <<>>
    ELSE IF IsSpace(s[Len(s)]) THEN TrimRight(SubSeq(s, 1, Len(s) - 1)) ELSE s

\* strings.TrimSpace
TrimSpace(s) == TrimRight(TrimLeft(s))

\* strings.HasPrefix
HasPrefix(s, p) == Len(s) >= Len(p) /\ SubSeq(s, 1, Len(p)) = p

\* strings.Split(s, "\n"): always at least one (possibly empty) field
RECURSIVE SplitLines(_, _)
SplitLines(s, cur) ==
    IF s = <<>> THEN <<cur>>
    ELSE IF Head(s) = "\n" THEN <<cur>> \o SplitLines(Tail(s), <<>>)
    ELSE SplitLines(Tail(s), Append(cur, Head(s)))

(***************************************************************************)
(* splitSQLStatements (migration.go)                                       *)
(***************************************************************************)

\* the local variables of splitSQLStatements before the first line
SplitInit == [statements |-> <<>>, cur |-> <<>>, inQuotes |-> FALSE, quoteChar |-> ""]

\* a line that the splitter skips: comment markers and the empty line
IsSkippedLine(line) ==
    \/ HasPrefix(line, <<"-", "-">>)
    \/ HasPrefix(line, <<"#">>)
    \/ HasPrefix(line, <<"/", "*">>)
    \/ line = <<>>

\* the "end of statement" case: emit the trimmed accumulator if non-empty, reset
EmitStatement(st) ==
    LET statement == TrimSpace(st.cur) IN
    [st EXCEPT !.statements = IF statement # <<>> THEN Append(@, statement) ELSE @,
               !.cur = <<>>]

\* variant: a switch without the quote cases, every semicolon ends a statement
ScanRuneIgnoringQuotes(runes, i, st) ==
    IF runes[i] = ";" THEN [st |-> EmitStatement(st), i |-> i]
    ELSE [st |-> [st EXCEPT !.cur = Append(@, runes[i])], i |-> i]

\* the switch on one rune at index i of the line; returns the new locals and
\* the index of the last rune consumed
ScanRune(runes, i, st) ==
    LET char == runes[i] IN
    IF ~st.inQuotes /\ char \in {"'", "\""}
    THEN [st |-> [st EXCEPT !.inQuotes = TRUE, !.quoteChar = char,
                            !.cur = Append(@, char)],
          i |-> i]
    ELSE IF st.inQuotes /\ char = st.quoteChar
    THEN IF i + 1 <= Len(runes) /\ runes[i + 1] = st.quoteChar
         THEN [st |-> [st EXCEPT !.cur = @ \o <<char, char>>], i |-> i + 1]
         ELSE [st |-> [st EXCEPT !.inQuotes = FALSE, !.cur = Append(@, char)],
               i |-> i]
    ELSE IF ~st.inQuotes /\ char = ";"
    THEN [st |-> EmitStatement(st), i |-> i]
    ELSE [st |-> [st EXCEPT !.cur = Append(@, char)], i |-> i]

\* the inner for loop over the runes of one line, from index i
RECURSIVE ScanLine(_, _, _)
ScanLine(runes, i, st) ==
    IF i > Len(runes) THEN st
    ELSE LET r == ScanRune(runes, i, st) IN ScanLine(runes, r.i + 1, r.st)

\* the body of the outer loop for one line
SplitLine(rawLine, st) ==
    LET line == TrimSpace(rawLine) IN
    IF IsSkippedLine(line) THEN st
    ELSE LET s2 == ScanLine(line, 1, st) IN
         IF Len(s2.cur) > 0 THEN [s2 EXCEPT !.cur = Append(@, "\n")] ELSE s2

RECURSIVE SplitLoop(_, _)
SplitLoop(lines, st) ==
    IF lines = <<>> THEN st ELSE SplitLoop(Tail(lines), SplitLine(Head(lines), st))

\* variant: the text accumulated after the last semicolon is dropped
splitSQLStatementsNoTail(sqlContent) ==
    SplitLoop(SplitLines(sqlContent, <<>>), SplitInit).statements

splitSQLStatements(sqlContent) ==
    LET st == SplitLoop(SplitLines(sqlContent, <<>>), SplitInit) IN
    IF Len(st.cur) > 0 THEN EmitStatement(st).statements ELSE st.statements

(***************************************************************************)
(* ConnectionManager (manager.go): state                                   *)
(***************************************************************************)

VARIABLES
    connConfigs,        \* map name -> connDsn
    connectionFns,      \* map driver name -> connection function
    connections,        \* map name -> client handle
    mu,                 \* sync.RWMutex guarding the three maps above
    executedMigrations, \* set of migration keys
    migrationMu,        \* sync.RWMutex guarding executedMigrations
    clients,            \* every *gorm.DB a factory has returned, by handle
    pc,                 \* per goroutine: where it is in its current call
    frame,              \* per goroutine: arguments, locals and results of its call
    calls,              \* how many more manager calls this run may start
    factoryCalls,       \* history: per name, how many times GetConnection has
                        \* called a connection function
    migrationRuns,      \* history: per migration key, how many times the body
                        \* run by RunMigrationOnce has returned success
    sql                 \* the SQL text handed to the splitter (splitter runs)

vars == <<connConfigs, connectionFns, connections, mu, executedMigrations,
          migrationMu, clients, pc, frame, calls, factoryCalls,
          migrationRuns, sql>>

Threads == {"t1", "t2"}

DbMySQL == "mysql"
DbPostgres == "postgres"
DbSqlite == "sqlite"
DbLibSQL == "libsql"

\* Go maps as functions with a finite domain
EmptyMap == [x \in {} |-> x]
MapPut(m, k, v) == [x \in DOMAIN m \cup {k} |-> IF x = k THEN v ELSE m[x]]
MapDelete(m, k) == [x \in DOMAIN m \ {k} |-> m[x]]

\* zero values
NoConfig == [DriverName |-> "", Dsn |-> ""]
NoFn == ""
Nil == 0
NoErr == ""

\* variant: an Unlock that leaves the mutex held
UnlockSkipped(l, t) == l

\* sync.RWMutex
Unlocked == [writer |-> "", readers |-> {}]
CanRLock(l) == l.writer = ""
CanLock(l) == l.writer = "" /\ l.readers = {}
RLock(l, t) == [l EXCEPT !.readers = @ \cup {t}]
RUnlock(l, t) == [l EXCEPT !.readers = @ \ {t}]
Lock(l, t) == [l EXCEPT !.writer = t]
Unlock(l, t) == [l EXCEPT !.writer = ""]

\* the frame of a call that has just been entered
NewFrame(op, name, filePath) ==
    [op |-> op, name |-> name, filePath |-> filePath,
     config |-> NoConfig, connFn |-> NoFn, conn |-> Nil,
     err |-> NoErr, errIndex |-> 0,
     statements |-> <<>>, issued |-> <<>>,
     tables |-> <<>>,    \* the tables the enumeration of a table operation returned
     slow |-> FALSE,     \* GetConnection took the exclusive-lock path
     locked |-> FALSE,   \* RunMigrationOnce took the exclusive-lock path
     created |-> FALSE]  \* GetConnection called the connection function

\* NewConnectionManager
NewConnectionManager ==
    /\ connConfigs = EmptyMap
    /\ connectionFns = EmptyMap
    /\ connections = EmptyMap
    /\ mu = Unlocked
    /\ executedMigrations = {}
    /\ migrationMu = Unlocked

(***************************************************************************)
(* Calls, returns and the clients the factories hand out                   *)
(***************************************************************************)

\* a goroutine that is not inside a manager call may start one
CanCall(t) == pc[t] = "idle" /\ calls > 0

\* where a caller of GetConnection goes on when GetConnection has returned
AfterGetConnection(f) ==
    IF f.op = "GetConnection" THEN "idle"
    ELSE IF f.err # NoErr
         THEN (IF f.op = "RunMigrationOnce" THEN "mo_mark" ELSE "idle")
    ELSE IF f.op \in {"FlushAllTables", "DropAllTables"} THEN "ft_rlock"
    ELSE "rm_read"

\* where the caller of RunMigration goes on when RunMigration has returned
AfterRunMigration(f) == IF f.op = "RunMigrationOnce" THEN "mo_mark" ELSE "idle"

\* the *gorm.DB a connection function returns for dsn; its handle is its index
NewClient(name, driver, dsn) ==
    [name |-> name, driver |-> driver, dsn |-> dsn,
     closeCalls |-> 0,     \* how many times sqlDB.Close() was invoked on it
     closed |-> FALSE,     \* a Close() of it has succeeded
     reclosed |-> FALSE,   \* Close() was invoked on it after it was closed
     enforced |-> TRUE,    \* its session enforces referential integrity
     applied |-> {}]       \* the statements committed on its database

\* outcomes of closing one client: conn.DB() fails, sqlDB.Close() fails, or ok
CloseOutcomes == {"ok", "dbErr", "closeErr"}

\* conn.DB() followed by sqlDB.Close() on handle h with the given outcome
CloseClient(cl, h, outcome) ==
    IF outcome = "dbErr" THEN cl
    ELSE [cl EXCEPT ![h].closeCalls = @ + 1,
                    ![h].closed = @ \/ outcome = "ok",
                    ![h].reclosed = @ \/ cl[h].closed]

(***************************************************************************)
(* AddConnectionFunc, SetDsn                                               *)
(***************************************************************************)

\* AddConnectionFunc writes the map without taking the lock
AddConnectionFunc(t, driverName) ==
    /\ CanCall(t)
    /\ connectionFns' = MapPut(connectionFns, driverName, driverName)
    /\ calls' = calls - 1
    /\ UNCHANGED <<connConfigs, connections, mu, executedMigrations, migrationMu,
                   clients, pc, frame, factoryCalls,
                   migrationRuns, sql>>

\* SetDsn: m.mu.Lock()
SetDsnLock(t, name, driverName, dsn) ==
    /\ CanCall(t)
    /\ CanLock(mu)
    /\ mu' = Lock(mu, t)
    /\ frame' = [frame EXCEPT ![t] =
                   [NewFrame("SetDsn", name, "") EXCEPT
                       !.config = [DriverName |-> driverName, Dsn |-> dsn]]]
    /\ pc' = [pc EXCEPT ![t] = "sd_body"]
    /\ calls' = calls - 1
    /\ UNCHANGED <<connConfigs, connectionFns, connections, executedMigrations,
                   migrationMu, clients, factoryCalls,
                   migrationRuns, sql>>

\* SetDsn: the store and the deferred Unlock
SetDsnBody(t) ==
    /\ pc[t] = "sd_body"
    /\ connConfigs' = MapPut(connConfigs, frame[t].name, frame[t].config)
    /\ mu' = Unlock(mu, t)
    /\ pc' = [pc EXCEPT ![t] = "idle"]
    /\ UNCHANGED <<connectionFns, connections, executedMigrations, migrationMu,
                   clients, frame, calls, factoryCalls,
                   migrationRuns, sql>>

(***************************************************************************)
(* GetConnection                                                           *)
(***************************************************************************)

\* m.mu.RLock() at the head of GetConnection, entered with frame f
GetConnectionEnter(t, f) ==
    /\ CanRLock(mu)
    /\ mu' = RLock(mu, t)
    /\ frame' = [frame EXCEPT ![t] = f]
    /\ pc' = [pc EXCEPT ![t] = "gc_read"]

\* a call of GetConnection by the user
GetConnectionCall(t, name) ==
    /\ CanCall(t)
    /\ GetConnectionEnter(t, NewFrame("GetConnection", name, ""))
    /\ calls' = calls - 1
    /\ UNCHANGED <<connConfigs, connectionFns, connections, executedMigrations,
                   migrationMu, clients, factoryCalls,
                   migrationRuns, sql>>

\* the reads under the shared lock and the RUnlock; the result is the frame
\* after them, and the pc says whether GetConnection has returned
GetConnectionReadFrame(f) ==
    IF f.name \notin DOMAIN connConfigs
    THEN [f EXCEPT !.err = "ConfigNotFound"]
    ELSE LET config == connConfigs[f.name] IN
         IF config.DriverName \notin DOMAIN connectionFns
         THEN [f EXCEPT !.config = config, !.err = "FactoryNotFound"]
         ELSE [f EXCEPT !.config = config,
                        !.connFn = connectionFns[config.DriverName],
                        !.conn = IF f.name \in DOMAIN connections
                                 THEN connections[f.name] ELSE Nil]

GetConnectionRead(t) ==
    /\ pc[t] = "gc_read"
    /\ LET f == GetConnectionReadFrame(frame[t])
           exists == f.name \in DOMAIN connections
       IN /\ frame' = [frame EXCEPT ![t] = f]
          /\ pc' = [pc EXCEPT ![t] =
                      IF f.err # NoErr \/ exists THEN AfterGetConnection(f)
                      ELSE "gc_lock"]
    /\ mu' = RUnlock(mu, t)
    /\ UNCHANGED <<connConfigs, connectionFns, connections, executedMigrations,
                   migrationMu, clients, calls, factoryCalls,
                   migrationRuns, sql>>

\* m.mu.Lock() after a cache miss
GetConnectionLock(t) ==
    /\ pc[t] = "gc_lock"
    /\ CanLock(mu)
    /\ mu' = Lock(mu, t)
    /\ frame' = [frame EXCEPT ![t].slow = TRUE]
    /\ pc' = [pc EXCEPT ![t] = "gc_create"]
    /\ UNCHANGED <<connConfigs, connectionFns, connections, executedMigrations,
                   migrationMu, clients, calls, factoryCalls,
                   migrationRuns, sql>>

\* variant: the exclusive-lock path without the second look at the cache
MustCreateUnchecked(name) == TRUE

\* the double check under the exclusive lock: is the factory to be called?
MustCreate(name) == name \notin DOMAIN connections

\* what the connection function returns: a new client, or an error
FactoryOutcomes == {"ok", "err"}

\* variant: the store made before the error of connFn is looked at
StoreConnectionAnyway(conns, name, conn, err) == MapPut(conns, name, conn)

\* the store after connFn has returned (conn, err)
StoreConnection(conns, name, conn, err) ==
    IF err # NoErr THEN conns ELSE MapPut(conns, name, conn)

\* one more entry in a map of counters
Count(m, k) == MapPut(m, k, IF k \in DOMAIN m THEN m[k] + 1 ELSE 1)

\* under the exclusive lock: re-check, call the factory, store, Unlock
GetConnectionCreate(t) ==
    /\ pc[t] = "gc_create"
    /\ LET f == frame[t] IN
       IF ~MustCreate(f.name)
       THEN /\ frame' = [frame EXCEPT ![t] = [f EXCEPT !.conn = connections[f.name]]]
            /\ pc' = [pc EXCEPT ![t] = AfterGetConnection(f)]
            /\ UNCHANGED <<connections, clients, factoryCalls>>
       ELSE \E outcome \in FactoryOutcomes :
            LET err == IF outcome = "ok" THEN NoErr ELSE "ClientCreationError"
                conn == IF outcome = "ok" THEN Len(clients) + 1 ELSE Nil
                g == [f EXCEPT !.conn = conn, !.err = err, !.created = TRUE]
            IN /\ clients' = IF outcome = "ok"
                             THEN Append(clients, NewClient(f.name, f.connFn, f.config.Dsn))
                             ELSE clients
               /\ connections' = StoreConnection(connections, f.name, conn, err)
               /\ factoryCalls' = Count(factoryCalls, f.name)
               /\ frame' = [frame EXCEPT ![t] = g]
               /\ pc' = [pc EXCEPT ![t] = AfterGetConnection(g)]
    /\ mu' = Unlock(mu, t)
    /\ UNCHANGED <<connConfigs, connectionFns, executedMigrations, migrationMu,
                   calls, migrationRuns, sql>>

(***************************************************************************)
(* Close, CloseAll                                                         *)
(***************************************************************************)

\* Close: m.mu.Lock()
CloseLock(t, name) ==
    /\ CanCall(t)
    /\ CanLock(mu)
    /\ mu' = Lock(mu, t)
    /\ frame' = [frame EXCEPT ![t] = NewFrame("Close", name, "")]
    /\ pc' = [pc EXCEPT ![t] = "cl_body"]
    /\ calls' = calls - 1
    /\ UNCHANGED <<connConfigs, connectionFns, connections, executedMigrations,
                   migrationMu, clients, factoryCalls,
                   migrationRuns, sql>>

\* variant: the entry is deleted whether or not the close succeeded
AfterCloseAlwaysDelete(conns, name, outcome) == MapDelete(conns, name)

\* variant: the entry is kept after a successful close
AfterCloseNeverDelete(conns, name, outcome) == conns

\* the cache after the close of the client of name has ended with outcome
AfterClose(conns, name, outcome) ==
    IF outcome = "ok" THEN MapDelete(conns, name) ELSE conns

\* Close: the body and the deferred Unlock
CloseBody(t) ==
    /\ pc[t] = "cl_body"
    /\ LET f == frame[t] IN
       IF f.name \notin DOMAIN connections
       THEN /\ frame' = [frame EXCEPT ![t].err = "ConnectionNotFound"]
            /\ UNCHANGED <<connections, clients>>
       ELSE IF connections[f.name] = Nil
       THEN /\ frame' = [frame EXCEPT ![t].err = "NotEstablished"]
            /\ UNCHANGED <<connections, clients>>
       ELSE \E outcome \in CloseOutcomes :
            LET h == connections[f.name] IN
            /\ clients' = CloseClient(clients, h, outcome)
            /\ frame' = [frame EXCEPT ![t].conn = h,
                                      ![t].err = IF outcome = "ok" THEN NoErr
                                                 ELSE "CloseError"]
            /\ connections' = AfterClose(connections, f.name, outcome)
    /\ mu' = Unlock(mu, t)
    /\ pc' = [pc EXCEPT ![t] = "idle"]
    /\ UNCHANGED <<connConfigs, connectionFns, executedMigrations, migrationMu,
                   calls, factoryCalls,
                   migrationRuns, sql>>

\* CloseAll: m.mu.Lock()
CloseAllLock(t) ==
    /\ CanCall(t)
    /\ CanLock(mu)
    /\ mu' = Lock(mu, t)
    /\ frame' = [frame EXCEPT ![t] = NewFrame("CloseAll", "", "")]
    /\ pc' = [pc EXCEPT ![t] = "ca_body"]
    /\ calls' = calls - 1
    /\ UNCHANGED <<connConfigs, connectionFns, connections, executedMigrations,
                   migrationMu, clients, factoryCalls,
                   migrationRuns, sql>>

\* the orders in which range may visit the keys of a map
RECURSIVE Orders(_)
Orders(S) ==
    IF S = {} THEN {<<>>}
    ELSE UNION {{<<x>> \o o : o \in Orders(S \ {x})} : x \in S}

\* the range loop of CloseAll over the names in order: the close of the
\* failAt-th entry ends with outcome bad (failAt = 0: every close succeeds)
RECURSIVE CloseAllLoop(_, _, _, _, _)
CloseAllLoop(order, i, failAt, bad, cl) ==
    IF i > Len(order) THEN cl
    ELSE LET h == connections[order[i]] IN
         IF h = Nil THEN CloseAllLoop(order, i + 1, failAt, bad, cl)
         ELSE IF i = failAt THEN CloseClient(cl, h, bad)
         ELSE CloseAllLoop(order, i + 1, failAt, bad, CloseClient(cl, h, "ok"))

\* CloseAll: the loop, the reset of the map and the deferred Unlock
CloseAllBody(t) ==
    /\ pc[t] = "ca_body"
    /\ \E order \in Orders(DOMAIN connections) :
       \E failAt \in 0..Len(order) :
       \E bad \in CloseOutcomes \ {"ok"} :
          /\ clients' = CloseAllLoop(order, 1, failAt, bad, clients)
          /\ connections' = IF failAt = 0 THEN EmptyMap ELSE connections
          /\ frame' = [frame EXCEPT ![t].err = IF failAt = 0 THEN NoErr
                                               ELSE "CloseError"]
    /\ mu' = Unlock(mu, t)
    /\ pc' = [pc EXCEPT ![t] = "idle"]
    /\ UNCHANGED <<connConfigs, connectionFns, executedMigrations, migrationMu,
                   calls, factoryCalls,
                   migrationRuns, sql>>

(***************************************************************************)
(* Dialect table operations (flush.go and the drop file)                   *)
(***************************************************************************)

\* bound: how many tables the enumeration of a database returns
MaxTables == 2

TableName(k) == "t" \o ToString(k)

\* what the table enumeration of a database may return
TableLists == {[k \in 1..n |-> TableName(k)] : n \in 0..MaxTables}

\* The four phases shared by the six dialect functions, on the statements of
\* one dialect.  failAt is the position of the statement whose execution
\* fails: 1 the disable statement, 2 the enumeration, 2 + k the statement of
\* the k-th table, Len(tables) + 3 the re-enable statement, 0 none.  The
\* result holds the statements issued, the error, the tables enumerated and
\* whether the disable and the re-enable statement have succeeded.
TableOpResult(issued, err, tables, disabled, enabled) ==
    [issued |-> issued, err |-> err, tables |-> tables,
     disabled |-> disabled, enabled |-> enabled]

\* variant: the operation returns after its loop, without the re-enable statement
TableOpNoEnable(disable, enumerate, prefix, suffix, enable, tables, failAt) ==
    LET n == Len(tables)
        last == IF failAt \in 3..(n + 2) THEN failAt - 2 ELSE n
        loop == [k \in 1..last |-> prefix \o tables[k] \o suffix]
    IN IF failAt = 1 THEN TableOpResult(<<disable>>, "DisableError", <<>>, FALSE, FALSE)
       ELSE IF failAt = 2
       THEN TableOpResult(<<disable, enumerate>>, "EnumerateError", <<>>, TRUE, FALSE)
       ELSE IF failAt \in 3..(n + 2)
       THEN TableOpResult(<<disable, enumerate>> \o loop, "TableError", tables, TRUE, FALSE)
       ELSE TableOpResult(<<disable, enumerate>> \o loop, NoErr, tables, TRUE, FALSE)

\* variant: the loop goes on after the statement of a table has failed, and
\* the re-enable statement is issued before the error is returned
TableOpBestEffort(disable, enumerate, prefix, suffix, enable, tables, failAt) ==
    LET n == Len(tables)
        loop == [k \in 1..n |-> prefix \o tables[k] \o suffix]
    IN IF failAt = 1 THEN TableOpResult(<<disable>>, "DisableError", <<>>, FALSE, FALSE)
       ELSE IF failAt = 2
       THEN TableOpResult(<<disable, enumerate>>, "EnumerateError", <<>>, TRUE, FALSE)
       ELSE IF failAt \in 3..(n + 2)
       THEN TableOpResult(<<disable, enumerate>> \o loop \o <<enable>>, "TableError",
                          tables, TRUE, TRUE)
       ELSE TableOpResult(<<disable, enumerate>> \o loop \o <<enable>>,
                          IF failAt = n + 3 THEN "EnableError" ELSE NoErr,
                          tables, TRUE, failAt # n + 3)

TableOp(disable, enumerate, prefix, suffix, enable, tables, failAt) ==
    LET n == Len(tables)
        last == IF failAt \in 3..(n + 2) THEN failAt - 2 ELSE n
        loop == [k \in 1..last |-> prefix \o tables[k] \o suffix]
    IN IF failAt = 1 THEN TableOpResult(<<disable>>, "DisableError", <<>>, FALSE, FALSE)
       ELSE IF failAt = 2
       THEN TableOpResult(<<disable, enumerate>>, "EnumerateError", <<>>, TRUE, FALSE)
       ELSE IF failAt \in 3..(n + 2)
       THEN TableOpResult(<<disable, enumerate>> \o loop, "TableError", tables, TRUE, FALSE)
       ELSE TableOpResult(<<disable, enumerate>> \o loop \o <<enable>>,
                          IF failAt = n + 3 THEN "EnableError" ELSE NoErr,
                          tables, TRUE, failAt # n + 3)

SqliteTables == "SELECT name FROM sqlite_master WHERE type='table' AND name NOT LIKE 'sqlite_%'"
PostgresTables == "SELECT tablename FROM pg_tables WHERE schemaname = 'public'"

FlushSQLiteTables(tables, failAt) ==
    TableOp("PRAGMA foreign_keys = OFF", SqliteTables, "DELETE FROM ", "",
            "PRAGMA foreign_keys = ON", tables, failAt)

FlushMySQLTables(tables, failAt) ==
    TableOp("SET FOREIGN_KEY_CHECKS = 0", "SHOW TABLES", "TRUNCATE TABLE ", "",
            "SET FOREIGN_KEY_CHECKS = 1", tables, failAt)

FlushPostgresTables(tables, failAt) ==
    TableOp("SET session_replication_role = 'replica'", PostgresTables,
            "TRUNCATE TABLE ", " CASCADE",
            "SET session_replication_role = 'origin'", tables, failAt)

DropSQLiteTables(tables, failAt) ==
    TableOp("PRAGMA foreign_keys = OFF", SqliteTables, "DROP TABLE IF EXISTS ", "",
            "PRAGMA foreign_keys = ON", tables, failAt)

DropMySQLTables(tables, failAt) ==
    TableOp("SET FOREIGN_KEY_CHECKS = 0", "SHOW TABLES", "DROP TABLE IF EXISTS ", "",
            "SET FOREIGN_KEY_CHECKS = 1", tables, failAt)

DropPostgresTables(tables, failAt) ==
    TableOp("SET session_replication_role = 'replica'", PostgresTables,
            "DROP TABLE IF EXISTS ", " CASCADE",
            "SET session_replication_role = 'origin'", tables, failAt)

(***************************************************************************)
(* FlushAllTables, DropAllTables                                           *)
(***************************************************************************)

Unsupported == TableOpResult(<<>>, "UnsupportedDriver", <<>>, FALSE, FALSE)

\* variant: a switch whose SQLite case names sqlite alone
FlushSwitchNoLibSQL(driverName, tables, failAt) ==
    IF driverName = DbSqlite THEN FlushSQLiteTables(tables, failAt)
    ELSE IF driverName = DbMySQL THEN FlushMySQLTables(tables, failAt)
    ELSE IF driverName = DbPostgres THEN FlushPostgresTables(tables, failAt)
    ELSE Unsupported

\* the switch of FlushAllTables on config.DriverName
FlushSwitch(driverName, tables, failAt) ==
    IF driverName \in {DbSqlite, DbLibSQL} THEN FlushSQLiteTables(tables, failAt)
    ELSE IF driverName = DbMySQL THEN FlushMySQLTables(tables, failAt)
    ELSE IF driverName = DbPostgres THEN FlushPostgresTables(tables, failAt)
    ELSE Unsupported

\* the switch of DropAllTables on config.DriverName
DropSwitch(driverName, tables, failAt) ==
    IF driverName \in {DbSqlite, DbLibSQL} THEN DropSQLiteTables(tables, failAt)
    ELSE IF driverName = DbMySQL THEN DropMySQLTables(tables, failAt)
    ELSE IF driverName = DbPostgres THEN DropPostgresTables(tables, failAt)
    ELSE Unsupported

\* a call of FlushAllTables or DropAllTables: it starts with GetConnection
TableOpCall(t, op, name) ==
    /\ CanCall(t)
    /\ op \in {"FlushAllTables", "DropAllTables"}
    /\ GetConnectionEnter(t, NewFrame(op, name, ""))
    /\ calls' = calls - 1
    /\ UNCHANGED <<connConfigs, connectionFns, connections, executedMigrations,
                   migrationMu, clients, factoryCalls,
                   migrationRuns, sql>>

\* m.mu.RLock() after GetConnection has returned a client
TableOpRLock(t) ==
    /\ pc[t] = "ft_rlock"
    /\ CanRLock(mu)
    /\ mu' = RLock(mu, t)
    /\ pc' = [pc EXCEPT ![t] = "ft_read"]
    /\ UNCHANGED <<connConfigs, connectionFns, connections, executedMigrations,
                   migrationMu, clients, frame, calls, factoryCalls,
                   migrationRuns, sql>>

\* referential-integrity enforcement in the session of a client after a
\* dialect function with result r has run on it: a statement that fails
\* changes nothing
Enforcement(enforced, r) ==
    IF r.enabled THEN TRUE ELSE IF r.disabled THEN FALSE ELSE enforced

\* the read of the config, the RUnlock, the switch and the dialect function
TableOpDispatch(t) ==
    /\ pc[t] = "ft_read"
    /\ LET f == frame[t] IN
       IF f.name \notin DOMAIN connConfigs
       THEN /\ frame' = [frame EXCEPT ![t].err = "ConfigNotFound"]
            /\ UNCHANGED clients
       ELSE \E tables \in TableLists : \E failAt \in 0..(Len(tables) + 3) :
            LET config == connConfigs[f.name]
                r == IF f.op = "FlushAllTables"
                     THEN FlushSwitch(config.DriverName, tables, failAt)
                     ELSE DropSwitch(config.DriverName, tables, failAt)
            IN /\ frame' = [frame EXCEPT ![t].config = config,
                                         ![t].issued = r.issued,
                                         ![t].tables = r.tables,
                                         ![t].err = r.err]
               /\ clients' = [clients EXCEPT ![f.conn].enforced = Enforcement(@, r)]
    /\ mu' = RUnlock(mu, t)
    /\ pc' = [pc EXCEPT ![t] = "idle"]
    /\ UNCHANGED <<connConfigs, connectionFns, connections, executedMigrations,
                   migrationMu, calls, factoryCalls, migrationRuns, sql>>

(***************************************************************************)
(* RunMigration                                                            *)
(***************************************************************************)

\* The files os.ReadFile can read, by path; any other path is unreadable.
FileSystem ==
    [p \in {"m.sql", "blank.sql", "note.sql"} |->
        IF p = "m.sql" THEN <<"a", ";", "\n", "b", ";", "\n", "c", ";", "\n">>
        ELSE IF p = "blank.sql" THEN <<" ", "\n">>
        ELSE <<"-", "-", "x", "\n">>]

\* a call of RunMigration by the user: it starts with GetConnection
RunMigrationCall(t, name, filePath) ==
    /\ CanCall(t)
    /\ GetConnectionEnter(t, NewFrame("RunMigration", name, filePath))
    /\ calls' = calls - 1
    /\ UNCHANGED <<connConfigs, connectionFns, connections, executedMigrations,
                   migrationMu, clients, factoryCalls,
                   migrationRuns, sql>>

\* RunMigration called by RunMigrationOnce: it starts with GetConnection
RunMigrationEnter(t) ==
    /\ pc[t] = "rm_enter"
    /\ GetConnectionEnter(t, frame[t])
    /\ UNCHANGED <<connConfigs, connectionFns, connections, executedMigrations,
                   migrationMu, clients, calls, factoryCalls,
                   migrationRuns, sql>>

\* strings.TrimSpace(string(sqlContent)) for the file at each path
TrimmedFiles == [p \in DOMAIN FileSystem |-> TrimSpace(FileSystem[p])]

\* splitSQLStatements(sqlString) for the file at each path
FileStatements == [p \in DOMAIN FileSystem |-> splitSQLStatements(TrimmedFiles[p])]

\* from os.ReadFile to the split: the frame with the statements or the error
ReadStatements(f) ==
    IF f.filePath \notin DOMAIN FileSystem THEN [f EXCEPT !.err = "FileReadError"]
    ELSE LET sqlString == TrimmedFiles[f.filePath] IN
         IF sqlString = <<>> THEN [f EXCEPT !.err = "EmptyFile"]
         ELSE LET statements == FileStatements[f.filePath] IN
              IF Len(statements) = 0 THEN [f EXCEPT !.err = "NoStatements"]
              ELSE [f EXCEPT !.statements = statements]

RunMigrationRead(t) ==
    /\ pc[t] = "rm_read"
    /\ LET f == ReadStatements(frame[t]) IN
       /\ frame' = [frame EXCEPT ![t] = f]
       /\ pc' = [pc EXCEPT ![t] = IF f.err # NoErr THEN AfterRunMigration(f)
                                  ELSE "rm_tx"]
    /\ UNCHANGED <<connConfigs, connectionFns, connections, mu, executedMigrations,
                   migrationMu, clients, calls, factoryCalls,
                   migrationRuns, sql>>

\* variant: the loop goes on after a statement has failed and returns the
\* first error at its end
RECURSIVE TxLoopContinue(_, _, _, _)
TxLoopContinue(statements, i, failAt, issued) ==
    IF i > Len(statements)
    THEN [issued |-> issued,
          err |-> IF failAt = 0 THEN NoErr ELSE "StatementExecutionError",
          errIndex |-> failAt]
    ELSE TxLoopContinue(statements, i + 1, failAt, Append(issued, statements[i]))

\* The function passed to db.Transaction: the loop over the statements from
\* index i, where the Exec of statement failAt fails (0: none fails).  The
\* result holds the statements executed, the error and the index it carries.
RECURSIVE TxLoop(_, _, _, _)
TxLoop(statements, i, failAt, issued) ==
    IF i > Len(statements) THEN [issued |-> issued, err |-> NoErr, errIndex |-> 0]
    ELSE LET statement == TrimSpace(statements[i]) IN
         IF statement = <<>> THEN TxLoop(statements, i + 1, failAt, issued)
         ELSE IF i = failAt
         THEN [issued |-> Append(issued, statement),
               err |-> "StatementExecutionError", errIndex |-> i]
         ELSE TxLoop(statements, i + 1, failAt, Append(issued, statement))

\* variant: a transaction that is rolled back whatever the function returns
TransactionRolledBack(applied, r) == applied

\* db.Transaction: commit what the function executed when it returns nil,
\* roll it back when it returns an error
Transaction(applied, r) ==
    IF r.err = NoErr THEN applied \cup {r.issued[k] : k \in 1..Len(r.issued)}
    ELSE applied

\* the transaction of RunMigration, from Begin to Commit or Rollback
RunMigrationTx(t) ==
    /\ pc[t] = "rm_tx"
    /\ \E failAt \in 0..Len(frame[t].statements) :
       LET f == frame[t]
           r == TxLoop(f.statements, 1, failAt, <<>>)
           g == [f EXCEPT !.issued = r.issued, !.err = r.err, !.errIndex = r.errIndex]
           key == <<f.name, f.filePath>>
       IN /\ clients' = [clients EXCEPT ![f.conn].applied = Transaction(@, r)]
          /\ frame' = [frame EXCEPT ![t] = g]
          /\ pc' = [pc EXCEPT ![t] = AfterRunMigration(g)]
          /\ migrationRuns' =
                IF f.op = "RunMigrationOnce" /\ r.err = NoErr
                THEN Count(migrationRuns, key) ELSE migrationRuns
    /\ UNCHANGED <<connConfigs, connectionFns, connections, mu, executedMigrations,
                   migrationMu, calls, factoryCalls, sql>>

(***************************************************************************)
(* RunMigrationOnce                                                        *)
(***************************************************************************)

\* fmt.Sprintf("%s:%s", name, filePath)
MigrationKey(name, filePath) == name \o ":" \o filePath

\* m.migrationMu.RLock() for the first check
RunMigrationOnceCall(t, name, filePath) ==
    /\ CanCall(t)
    /\ CanRLock(migrationMu)
    /\ migrationMu' = RLock(migrationMu, t)
    /\ frame' = [frame EXCEPT ![t] = NewFrame("RunMigrationOnce", name, filePath)]
    /\ pc' = [pc EXCEPT ![t] = "mo_check"]
    /\ calls' = calls - 1
    /\ UNCHANGED <<connConfigs, connectionFns, connections, mu, executedMigrations,
                   clients, factoryCalls,
                   migrationRuns, sql>>

\* the first check and the RUnlock
RunMigrationOnceCheck(t) ==
    /\ pc[t] = "mo_check"
    /\ migrationMu' = RUnlock(migrationMu, t)
    /\ pc' = [pc EXCEPT ![t] =
                IF MigrationKey(frame[t].name, frame[t].filePath) \in executedMigrations
                THEN "idle" ELSE "mo_lock"]
    /\ UNCHANGED <<connConfigs, connectionFns, connections, mu, executedMigrations,
                   clients, frame, calls, factoryCalls,
                   migrationRuns, sql>>

\* m.migrationMu.Lock()
RunMigrationOnceLock(t) ==
    /\ pc[t] = "mo_lock"
    /\ CanLock(migrationMu)
    /\ migrationMu' = Lock(migrationMu, t)
    /\ frame' = [frame EXCEPT ![t].locked = TRUE]
    /\ pc' = [pc EXCEPT ![t] = "mo_recheck"]
    /\ UNCHANGED <<connConfigs, connectionFns, connections, mu, executedMigrations,
                   clients, calls, factoryCalls,
                   migrationRuns, sql>>

\* variant: the exclusive-lock path without the second look at the set
MustRunUnchecked(key) == TRUE

\* the second check, under the exclusive lock: is the body to be run?
MustRun(key) == key \notin executedMigrations

RunMigrationOnceRecheck(t) ==
    /\ pc[t] = "mo_recheck"
    /\ IF MustRun(MigrationKey(frame[t].name, frame[t].filePath))
       THEN /\ pc' = [pc EXCEPT ![t] = "rm_enter"]
            /\ UNCHANGED migrationMu
       ELSE /\ pc' = [pc EXCEPT ![t] = "idle"]
            /\ migrationMu' = Unlock(migrationMu, t)
    /\ UNCHANGED <<connConfigs, connectionFns, connections, mu, executedMigrations,
                   clients, frame, calls, factoryCalls,
                   migrationRuns, sql>>

\* variant: the key is recorded before the error of RunMigration is looked at
MarkExecutedAnyway(executed, key, err) == executed \cup {key}

\* what RunMigrationOnce records when RunMigration has returned err
MarkExecuted(executed, key, err) == IF err = NoErr THEN executed \cup {key} ELSE executed

\* after RunMigration has returned: mark on success, the deferred Unlock
RunMigrationOnceMark(t) ==
    /\ pc[t] = "mo_mark"
    /\ executedMigrations' =
          MarkExecuted(executedMigrations,
                       MigrationKey(frame[t].name, frame[t].filePath), frame[t].err)
    /\ migrationMu' = Unlock(migrationMu, t)
    /\ pc' = [pc EXCEPT ![t] = "idle"]
    /\ UNCHANGED <<connConfigs, connectionFns, connections, mu, clients, frame,
                   calls, factoryCalls,
                   migrationRuns, sql>>

(***************************************************************************)
(* Splitter runs: a text is typed character by character and then split    *)
(***************************************************************************)

\* bound: the length of the SQL texts handed to the splitter
MaxLen == 6

Alphabet == {"a", "b", " ", "\n", ";", "'", "#"}

TypeChar(c) ==
    /\ ~sql.done
    /\ Len(sql.text) < MaxLen
    /\ sql' = [sql EXCEPT !.text = Append(@, c)]
    /\ UNCHANGED <<connConfigs, connectionFns, connections, mu, executedMigrations,
                   migrationMu, clients, pc, frame, calls,
                   factoryCalls, migrationRuns>>

Split ==
    /\ ~sql.done
    /\ sql' = [sql EXCEPT !.statements = splitSQLStatements(sql.text), !.done = TRUE]
    /\ UNCHANGED <<connConfigs, connectionFns, connections, mu, executedMigrations,
                   migrationMu, clients, pc, frame, calls,
                   factoryCalls, migrationRuns>>

\* bound: the length of the texts of quoted literals handed to the splitter
MaxQuoteLen == 8

QuoteAlphabet == {"'", "\"", ";", "\n", "#"}

TypeQuoteChar(c) ==
    /\ ~sql.done
    /\ Len(sql.text) < MaxQuoteLen
    /\ sql' = [sql EXCEPT !.text = Append(@, c)]
    /\ UNCHANGED <<connConfigs, connectionFns, connections, mu, executedMigrations,
                   migrationMu, clients, pc, frame, calls,
                   factoryCalls, migrationRuns>>

(***************************************************************************)
(* Specifications                                                          *)
(***************************************************************************)

Init(budget) ==
    /\ NewConnectionManager
    /\ clients = <<>>
    /\ pc = [t \in Threads |-> "idle"]
    /\ frame = [t \in Threads |-> NewFrame("", "", "")]
    /\ calls = budget
    /\ factoryCalls = EmptyMap
    /\ migrationRuns = EmptyMap
    /\ sql = [text |-> <<>>, statements |-> <<>>, done |-> FALSE]

\* the steps of GetConnection after its first, whoever called it
GetConnectionSteps(t) ==
    \/ GetConnectionRead(t)
    \/ GetConnectionLock(t)
    \/ GetConnectionCreate(t)

\* registration of the factories of drivers and of the configs of names
Register(t, names, drivers, dsns) ==
    \/ \E d \in drivers : AddConnectionFunc(t, d)
    \/ \E n \in names, d \in drivers, dsn \in dsns : SetDsnLock(t, n, d, dsn)
    \/ SetDsnBody(t)

\* Connection lifecycle: two goroutines register, get and close two names.
Names == {"a", "b"}

\* bound: how many manager calls a run of Spec starts
MaxCalls == 7

Next ==
    \E t \in Threads :
        \/ Register(t, Names, {DbMySQL}, {"dsn1"})
        \/ \E n \in Names : GetConnectionCall(t, n)
        \/ GetConnectionSteps(t)
        \/ \E n \in Names : CloseLock(t, n)
        \/ CloseBody(t)
        \/ CloseAllLock(t)
        \/ CloseAllBody(t)

Spec == Init(MaxCalls) /\ [][Next]_vars

\* Migrations: two goroutines run the files of one name, once or plainly.
Paths == {"m.sql", "blank.sql", "note.sql", "missing.sql"}

\* bound: how many manager calls a run of MigrationSpec starts
MaxMigrationCalls == 5

MigrationNext ==
    \E t \in Threads :
        \/ Register(t, {"a"}, {DbSqlite}, {"dsn1"})
        \/ GetConnectionSteps(t)
        \/ \E p \in Paths : RunMigrationCall(t, "a", p)
        \/ RunMigrationEnter(t)
        \/ RunMigrationRead(t)
        \/ RunMigrationTx(t)
        \/ \E p \in Paths : RunMigrationOnceCall(t, "a", p)
        \/ RunMigrationOnceCheck(t)
        \/ RunMigrationOnceLock(t)
        \/ RunMigrationOnceRecheck(t)
        \/ RunMigrationOnceMark(t)

MigrationSpec == Init(MaxMigrationCalls) /\ [][MigrationNext]_vars

\* Table operations: flush and drop of one name under every driver id.
Drivers == {DbMySQL, DbPostgres, DbSqlite, DbLibSQL, "oracle"}

\* bound: how many manager calls a run of TableSpec starts
MaxTableCalls == 5

TableNext ==
    \E t \in Threads :
        \/ Register(t, {"a"}, Drivers, {"dsn1"})
        \/ GetConnectionSteps(t)
        \/ \E op \in {"FlushAllTables", "DropAllTables"} : TableOpCall(t, op, "a")
        \/ TableOpRLock(t)
        \/ TableOpDispatch(t)

TableSpec == Init(MaxTableCalls) /\ [][TableNext]_vars

\* Migration keys: names and paths that hold the separator of the key.
KeyNames == {"a", "a:b"}
KeyPaths == {"m.sql", "b:m.sql"}

\* bound: how many manager calls a run of KeySpec starts
MaxKeyCalls == 4

KeyNext ==
    \E t \in Threads :
        \/ Register(t, KeyNames, {DbSqlite}, {"dsn1"})
        \/ GetConnectionSteps(t)
        \/ RunMigrationEnter(t)
        \/ RunMigrationRead(t)
        \/ RunMigrationTx(t)
        \/ \E n \in KeyNames, p \in KeyPaths : RunMigrationOnceCall(t, n, p)
        \/ RunMigrationOnceCheck(t)
        \/ RunMigrationOnceLock(t)
        \/ RunMigrationOnceRecheck(t)
        \/ RunMigrationOnceMark(t)

KeySpec == Init(MaxKeyCalls) /\ [][KeyNext]_vars

\* Reconnection: one name is migrated once, closed, pointed at the same or
\* at another database and connected again.
\* bound: how many manager calls a run of ReconnectSpec starts
MaxReconnectCalls == 6

ReconnectNext ==
    \E t \in Threads :
        \/ Register(t, {"a"}, {DbSqlite}, {"dsn1", "dsn2"})
        \/ GetConnectionCall(t, "a")
        \/ GetConnectionSteps(t)
        \/ CloseLock(t, "a")
        \/ CloseBody(t)
        \/ CloseAllLock(t)
        \/ CloseAllBody(t)
        \/ RunMigrationEnter(t)
        \/ RunMigrationRead(t)
        \/ RunMigrationTx(t)
        \/ RunMigrationOnceCall(t, "a", "m.sql")
        \/ RunMigrationOnceCheck(t)
        \/ RunMigrationOnceLock(t)
        \/ RunMigrationOnceRecheck(t)
        \/ RunMigrationOnceMark(t)

ReconnectSpec == Init(MaxReconnectCalls) /\ [][ReconnectNext]_vars

\* Every operation: two goroutines call every operation of the manager on
\* one name.  A factory is registered while no call is in progress.
\* bound: how many manager calls a run of LiveSpec starts
MaxLiveCalls == 4

LivePaths == {"m.sql", "missing.sql"}

\* AddConnectionFunc called while every goroutine is outside the manager
AddConnectionFuncAlone(t) ==
    /\ \A u \in Threads : pc[u] = "idle"
    /\ AddConnectionFunc(t, DbSqlite)

\* the start of a call of one of the operations
Call(t) ==
    \/ AddConnectionFuncAlone(t)
    \/ SetDsnLock(t, "a", DbSqlite, "dsn1")
    \/ GetConnectionCall(t, "a")
    \/ CloseLock(t, "a")
    \/ CloseAllLock(t)
    \/ \E op \in {"FlushAllTables", "DropAllTables"} : TableOpCall(t, op, "a")
    \/ \E p \in LivePaths : RunMigrationCall(t, "a", p)
    \/ \E p \in LivePaths : RunMigrationOnceCall(t, "a", p)

\* the steps of a call in progress, up to its return
Continue(t) ==
    \/ SetDsnBody(t)
    \/ GetConnectionSteps(t)
    \/ CloseBody(t)
    \/ CloseAllBody(t)
    \/ TableOpRLock(t)
    \/ TableOpDispatch(t)
    \/ RunMigrationEnter(t)
    \/ RunMigrationRead(t)
    \/ RunMigrationTx(t)
    \/ RunMigrationOnceCheck(t)
    \/ RunMigrationOnceLock(t)
    \/ RunMigrationOnceRecheck(t)
    \/ RunMigrationOnceMark(t)

LiveNext == \E t \in Threads : Call(t) \/ Continue(t)

\* Scheduling: a goroutine inside a call goes on whenever it can; a
\* goroutine that waits for a mutex gets it when the mutex is free again
\* and again (sync.RWMutex starves neither readers nor writers).
LiveSpec ==
    /\ Init(MaxLiveCalls)
    /\ [][LiveNext]_vars
    /\ \A t \in Threads : SF_vars(Continue(t))

SplitNext == (\E c \in Alphabet : TypeChar(c)) \/ Split

SplitSpec == Init(0) /\ [][SplitNext]_vars

\* Splitter runs on texts of quote marks, semicolons and lines.
QuoteNext == (\E c \in QuoteAlphabet : TypeQuoteChar(c)) \/ Split

QuoteSpec == Init(0) /\ [][QuoteNext]_vars

(***************************************************************************)
(* Properties of the connection lifecycle (checked under Spec)             *)
(***************************************************************************)

Handles == 1..Len(clients)
ClientsOf(n) == {h \in Handles : clients[h].name = n}
LiveClientsOf(n) == {h \in ClientsOf(n) : ~clients[h].closed}
CountOf(m, k) == IF k \in DOMAIN m THEN m[k] ELSE 0

\* goroutine t has returned from a call of op
Returned(t, op) == pc[t] = "idle" /\ frame[t].op = op

\* GetConnection(n) has returned a client to goroutine t
GotConnection(t, n) ==
    Returned(t, "GetConnection") /\ frame[t].name = n /\ frame[t].err = NoErr

\* no close has yet been invoked on a client of n: nothing has left the cache
NeverClosed(n) == \A h \in ClientsOf(n) : clients[h].closeCalls = 0

\* every call of the factory for n has returned a client
FactorySucceeded(n) == CountOf(factoryCalls, n) = Cardinality(ClientsOf(n))

\* C1: for a name whose factory succeeds, callers of GetConnection that race
\* for the first access make the factory run exactly once, and every caller
\* returns the one client that is cached.
C1_FactoryCalledOnce ==
    \A n \in Names :
        (NeverClosed(n) /\ FactorySucceeded(n)) =>
            /\ CountOf(factoryCalls, n) <= 1
            /\ \A t \in Threads :
                  GotConnection(t, n) =>
                      /\ CountOf(factoryCalls, n) = 1
                      /\ n \in DOMAIN connections
                      /\ frame[t].conn = connections[n]

\* two callers have both missed the cache of n, both have taken the
\* exclusive-lock path and returned: one has called the factory
C1_Witness ==
    \E n \in Names : \E t, u \in Threads :
        /\ t # u
        /\ GotConnection(t, n) /\ GotConnection(u, n)
        /\ frame[t].slow /\ frame[u].slow
        /\ frame[t].created /\ ~frame[u].created
        /\ NeverClosed(n) /\ FactorySucceeded(n)

\* C4: a name has at most one client that a factory has created and that is
\* not closed, and that client is the one stored in the cache: no client is
\* created without being stored.
C4_AtMostOneLiveClient ==
    /\ \A n \in Names : Cardinality(LiveClientsOf(n)) <= 1
    /\ \A h \in Handles :
          ~clients[h].closed =>
              /\ clients[h].name \in DOMAIN connections
              /\ connections[clients[h].name] = h

\* a name whose first client was closed and replaced, after a race for the
\* first access that one caller lost
C4_Witness ==
    \E n \in Names : \E t \in Threads :
        /\ Cardinality(ClientsOf(n)) >= 2
        /\ Cardinality(LiveClientsOf(n)) = 1
        /\ GotConnection(t, n) /\ frame[t].slow /\ ~frame[t].created

\* C5: Close of a name that is not cached fails with ConnectionNotFound and
\* changes nothing; a Close that succeeds leaves the name out of the cache;
\* and a GetConnection that finds the name out of the cache takes the
\* exclusive-lock path, calls the factory again and caches the new client.
C5_CloseThenRecreate ==
    [][\A t \in Threads :
        LET n == frame[t].name IN
        /\ (pc[t] = "cl_body" /\ pc'[t] = "idle") =>
              /\ n \notin DOMAIN connections =>
                    /\ frame'[t].err = "ConnectionNotFound"
                    /\ UNCHANGED <<connConfigs, connectionFns, connections, clients,
                                   executedMigrations>>
              /\ frame'[t].err = NoErr => n \notin DOMAIN connections'
        /\ (pc[t] = "gc_read" /\ pc'[t] # "gc_read" /\ frame'[t].err = NoErr
            /\ n \notin DOMAIN connections) => pc'[t] = "gc_lock"
        /\ (pc[t] = "gc_create" /\ pc'[t] # "gc_create"
            /\ n \notin DOMAIN connections) =>
              /\ frame'[t].created
              /\ CountOf(factoryCalls', n) = CountOf(factoryCalls, n) + 1
              /\ frame'[t].err = NoErr =>
                    /\ frame'[t].conn \notin Handles
                    /\ n \in DOMAIN connections'
                    /\ connections'[n] = frame'[t].conn
                    /\ ~clients'[frame'[t].conn].closed
      ]_vars

\* one goroutine has closed the client of n, the other has then got a new one
C5_Witness ==
    \E n \in Names : \E t, u \in Threads :
        /\ Returned(t, "Close") /\ frame[t].name = n /\ frame[t].err = NoErr
        /\ GotConnection(u, n) /\ frame[u].created
        /\ frame[t].conn < frame[u].conn
        /\ clients[frame[t].conn].closed
        /\ connections[n] = frame[u].conn

\* C6: no client is closed twice: once the close of a client has succeeded,
\* no Close and no CloseAll invokes its close again.
C6_NoDoubleClose == \A h \in Handles : ~clients[h].reclosed

\* C7: GetConnection fails with ConfigNotFound for a name without config and
\* with FactoryNotFound for a driver without factory, calling no factory; a
\* failing factory gives its error; and whenever GetConnection returns an
\* error the cache is as it was, so the name is still to be created.
C7_GetConnectionErrors ==
    [][\A t \in Threads :
        LET n == frame[t].name IN
        /\ (pc[t] = "gc_read" /\ pc'[t] # "gc_read") =>
              /\ n \notin DOMAIN connConfigs => frame'[t].err = "ConfigNotFound"
              /\ (n \in DOMAIN connConfigs
                  /\ connConfigs[n].DriverName \notin DOMAIN connectionFns) =>
                    frame'[t].err = "FactoryNotFound"
              /\ frame'[t].err # NoErr =>
                    /\ ~frame'[t].created
                    /\ factoryCalls' = factoryCalls
                    /\ pc'[t] = AfterGetConnection(frame'[t])
        /\ (pc[t] = "gc_create" /\ pc'[t] # "gc_create" /\ frame'[t].err # NoErr) =>
              /\ frame'[t].err = "ClientCreationError"
              /\ frame'[t].conn = Nil
              /\ n \notin DOMAIN connections'
        /\ (pc[t] \in {"gc_read", "gc_create"} /\ pc'[t] # pc[t]
            /\ frame'[t].err # NoErr) =>
              UNCHANGED <<connections, clients>>
      ]_vars

\* one caller has got the error of a failing factory and nothing is cached,
\* another has asked for a name without config
C7_Witness ==
    \E t, u \in Threads :
        /\ Returned(t, "GetConnection") /\ frame[t].err = "ClientCreationError"
        /\ frame[t].created /\ frame[t].name \notin DOMAIN connections
        /\ Returned(u, "GetConnection") /\ frame[u].err = "ConfigNotFound"
        /\ ~frame[u].created

\* goroutine u is in the shared-lock section of GetConnection, with a config
\* for its name: it reads the factory map before it leaves the section
ReadsFactoryMap(u) == pc[u] = "gc_read" /\ frame[u].name \in DOMAIN connConfigs

\* C15: no write to the config map, the factory map or the client map runs
\* while another goroutine reads or writes the same map: a step that writes
\* the config map or the client map is taken while no goroutine holds the
\* shared lock, and a step that writes the factory map is taken while no
\* goroutine is in a section that reads it.
C15_NoWriteDuringRead ==
    [][/\ (connConfigs' # connConfigs \/ connections' # connections) =>
             mu.readers = {}
       /\ connectionFns' # connectionFns =>
             \A u \in Threads : ~ReadsFactoryMap(u)
      ]_vars

\* C18: the cache holds no client whose close has succeeded, and
\* GetConnection returns no such client from the cache.
C18_NoClosedClientCached ==
    /\ \A n \in DOMAIN connections :
          connections[n] # Nil => ~clients[connections[n]].closed
    /\ \A t \in Threads :
          (Returned(t, "GetConnection") /\ frame[t].err = NoErr /\ ~frame[t].created
           /\ frame[t].name \in DOMAIN connections
           /\ connections[frame[t].name] = frame[t].conn) =>
              ~clients[frame[t].conn].closed

(***************************************************************************)
(* Properties of the migrations (checked under MigrationSpec)              *)
(***************************************************************************)

\* RunMigrationOnce(n, p) has returned to goroutine t
OnceReturned(t, n, p) ==
    Returned(t, "RunMigrationOnce") /\ frame[t].name = n /\ frame[t].filePath = p

\* the call of goroutine t has run the migration body to its commit
RanBody(t) == frame[t].err = NoErr /\ frame[t].issued # <<>>

\* C2: among the calls of RunMigrationOnce with one key, the body returns
\* success at most once; any other call has skipped the body or its body
\* has failed.
C2_BodySucceedsAtMostOnce ==
    /\ \A key \in DOMAIN migrationRuns : migrationRuns[key] <= 1
    /\ \A t, u \in Threads :
          (t # u /\ OnceReturned(t, frame[u].name, frame[u].filePath)
                 /\ OnceReturned(u, frame[u].name, frame[u].filePath)) =>
              ~(RanBody(t) /\ RanBody(u))

\* two calls with one key have both passed the first check; one has run the
\* body, the other has found the key under the exclusive lock and skipped it
C2_Witness ==
    \E t, u \in Threads : \E p \in Paths :
        /\ t # u
        /\ OnceReturned(t, "a", p) /\ OnceReturned(u, "a", p)
        /\ frame[t].locked /\ frame[u].locked
        /\ RanBody(t)
        /\ frame[u].err = NoErr /\ frame[u].issued = <<>>

\* C3: the set of executed keys grows only when RunMigrationOnce returns
\* after a body that succeeded, by the key of that call; a call that returns
\* an error leaves its key out of the set; and a call that finds its key out
\* of the set under the exclusive lock runs the body.
C3_MarkOnlyOnSuccess ==
    [][/\ executedMigrations' # executedMigrations =>
             \E u \in Threads :
                 /\ pc[u] = "mo_mark" /\ pc'[u] = "idle"
                 /\ frame[u].err = NoErr
                 /\ frame[u].issued = frame[u].statements
                 /\ frame[u].statements # <<>>
                 /\ executedMigrations' = executedMigrations
                        \cup {MigrationKey(frame[u].name, frame[u].filePath)}
       /\ \A t \in Threads :
             LET key == MigrationKey(frame[t].name, frame[t].filePath) IN
             /\ (pc[t] = "mo_mark" /\ pc'[t] = "idle" /\ frame[t].err # NoErr) =>
                   /\ key \notin executedMigrations'
                   /\ frame'[t].err = frame[t].err
             /\ (pc[t] = "mo_check" /\ pc'[t] # "mo_check"
                 /\ key \notin executedMigrations) => pc'[t] = "mo_lock"
             /\ (pc[t] = "mo_recheck" /\ pc'[t] # "mo_recheck"
                 /\ key \notin executedMigrations) => pc'[t] = "rm_enter"
      ]_vars

\* a call has failed in its body, and a later call with the same key has run
\* the body again, to success
C3_Witness ==
    \E t, u \in Threads : \E p \in Paths :
        /\ OnceReturned(t, "a", p) /\ frame[t].err = "StatementExecutionError"
        /\ OnceReturned(u, "a", p) /\ RanBody(u)
        /\ MigrationKey("a", p) \in executedMigrations

IsPrefix(s, r) == Len(s) <= Len(r) /\ SubSeq(r, 1, Len(s)) = s
Range(s) == {s[i] : i \in 1..Len(s)}

\* C8: the transaction of RunMigration executes the statements in split
\* order.  When statement k fails, the statements executed are exactly the
\* first k, the error carries k, and the database is as before the call;
\* when none fails, all are executed and committed.
C8_TransactionInOrder ==
    [][\A t \in Threads :
        (pc[t] = "rm_tx" /\ pc'[t] # "rm_tx") =>
            LET st == frame[t].statements
                k == frame'[t].errIndex
                h == frame[t].conn
            IN /\ IsPrefix(frame'[t].issued, st)
               /\ frame'[t].err = NoErr =>
                     /\ k = 0
                     /\ frame'[t].issued = st
                     /\ clients'[h].applied = clients[h].applied \cup Range(st)
               /\ frame'[t].err # NoErr =>
                     /\ frame'[t].err = "StatementExecutionError"
                     /\ k \in 1..Len(st)
                     /\ frame'[t].issued = SubSeq(st, 1, k)
                     /\ clients'[h].applied = clients[h].applied
      ]_vars

\* RunMigration on a file of three statements of which the second has
\* failed: two statements executed, index 2, nothing committed
C8_Witness ==
    \E t \in Threads :
        /\ Returned(t, "RunMigration")
        /\ Len(frame[t].statements) = 3
        /\ frame[t].err = "StatementExecutionError" /\ frame[t].errIndex = 2
        /\ frame[t].issued = SubSeq(frame[t].statements, 1, 2)
        /\ clients[frame[t].conn].applied = {}

\* goroutine t holds lock l, shared or exclusive
Holds(l, t) == l.writer = t \/ t \in l.readers

\* C14: a call of RunMigrationOnce that is executing the transaction of its
\* migration holds neither the lock of the connection cache nor the lock
\* of the migration tracking.
C14_NoLockDuringTransaction ==
    \A t \in Threads :
        (pc[t] = "rm_tx" /\ frame[t].op = "RunMigrationOnce") =>
            ~Holds(mu, t) /\ ~Holds(migrationMu, t)

\* C16: a call of RunMigrationOnce(n, f) returns success without running
\* the body only when the body of the same pair (n, f) has succeeded before:
\* the success of another pair never makes it skip.
C16_SkipsOnlyItsOwnPair ==
    \A t \in Threads :
        (Returned(t, "RunMigrationOnce") /\ frame[t].err = NoErr /\ ~RanBody(t)) =>
            CountOf(migrationRuns, <<frame[t].name, frame[t].filePath>>) >= 1

(***************************************************************************)
(* Properties of migrations and reconnection (checked under ReconnectSpec) *)
(***************************************************************************)

\* the statements of the migration file at path p
MigrationOf(p) == Range(splitSQLStatements(TrimSpace(FileSystem[p])))

\* the migration of file p is committed on client h
CommittedOn(h, p) == MigrationOf(p) \subseteq clients[h].applied

\* the migration of file p is committed on the database at dsn, through one
\* of the clients that were connected to it
CommittedOnDatabase(dsn, p) ==
    \E h \in Handles : clients[h].dsn = dsn /\ CommittedOn(h, p)

\* the database that name n resolves to: that of its cached client, or that
\* of its config when no client is cached
ResolvesTo(n) ==
    IF n \in DOMAIN connections /\ connections[n] # Nil
    THEN clients[connections[n]].dsn
    ELSE connConfigs[n].Dsn

DialectOf(driverName) ==
    CASE driverName \in {"sqlite", "libsql"} -> "SQLite"
      [] driverName = "mysql" -> "MySQL"
      [] driverName = "postgres" -> "PostgreSQL"
      [] OTHER -> "none"

\* the statement that disables the checks of a dialect
DisableOf(dialect) ==
    CASE dialect = "SQLite" -> "PRAGMA foreign_keys = OFF"
      [] dialect = "MySQL" -> "SET FOREIGN_KEY_CHECKS = 0"
      [] dialect = "PostgreSQL" -> "SET session_replication_role = 'replica'"

\* the destructive statement of an operation of a dialect on a table
DestructiveOf(op, dialect, table) ==
    CASE op = "FlushAllTables" /\ dialect = "SQLite" -> "DELETE FROM " \o table
      [] op = "FlushAllTables" /\ dialect = "MySQL" -> "TRUNCATE TABLE " \o table
      [] op = "FlushAllTables" /\ dialect = "PostgreSQL" ->
            "TRUNCATE TABLE " \o table \o " CASCADE"
      [] op = "DropAllTables" /\ dialect = "PostgreSQL" ->
            "DROP TABLE IF EXISTS " \o table \o " CASCADE"
      [] OTHER -> "DROP TABLE IF EXISTS " \o table

\* goroutine t has returned from FlushAllTables or DropAllTables after
\* GetConnection gave it a client
TableOpReturned(t) ==
    /\ pc[t] = "idle"
    /\ frame[t].op \in {"FlushAllTables", "DropAllTables"}
    /\ frame[t].conn # Nil

\* C9: FlushAllTables and DropAllTables run the operation of the dialect of
\* the config's driver id: the first statement on the client is the disable
\* statement of that dialect and the statement of a table is the
\* destructive statement of the operation in that dialect; under any other
\* driver id the call fails with UnsupportedDriver and issues nothing.
C9_DispatchByDriver ==
    \A t \in Threads :
        TableOpReturned(t) =>
            LET dialect == DialectOf(frame[t].config.DriverName)
                issued == frame[t].issued
            IN IF dialect = "none"
               THEN frame[t].err = "UnsupportedDriver" /\ issued = <<>>
               ELSE /\ frame[t].err # "UnsupportedDriver"
                    /\ issued # <<>>
                    /\ issued[1] = DisableOf(dialect)
                    /\ (Len(issued) >= 3 /\ frame[t].err = "TableError") =>
                          issued[3] = DestructiveOf(frame[t].op, dialect, TableName(1))

\* a flush under a driver id that has a factory and no dialect: the factory
\* has made the client, the call has failed and has issued nothing
C9_Witness ==
    \E t \in Threads :
        /\ TableOpReturned(t)
        /\ frame[t].op = "FlushAllTables"
        /\ frame[t].config.DriverName = "oracle"
        /\ "oracle" \in DOMAIN connectionFns
        /\ frame[t].created
        /\ frame[t].err = "UnsupportedDriver"
        /\ frame[t].issued = <<>>

\* the statement that enumerates the tables of a dialect
EnumerateOf(dialect) ==
    CASE dialect = "SQLite" ->
            "SELECT name FROM sqlite_master WHERE type='table' AND name NOT LIKE 'sqlite_%'"
      [] dialect = "MySQL" -> "SHOW TABLES"
      [] dialect = "PostgreSQL" ->
            "SELECT tablename FROM pg_tables WHERE schemaname = 'public'"

\* the statement that re-enables the checks of a dialect
EnableOf(dialect) ==
    CASE dialect = "SQLite" -> "PRAGMA foreign_keys = ON"
      [] dialect = "MySQL" -> "SET FOREIGN_KEY_CHECKS = 1"
      [] dialect = "PostgreSQL" -> "SET session_replication_role = 'origin'"

\* the destructive statements of an operation of a dialect on the first k
\* of the tables, in the order of the enumeration
DestructiveUpTo(op, dialect, tables, k) ==
    [j \in 1..k |-> DestructiveOf(op, dialect, tables[j])]

\* C12: a flush or drop that succeeds has issued on the client, for the
\* dialect of the driver: the disable statement, the enumeration, one
\* destructive statement for each table enumerated, in the order of the
\* enumeration, and the re-enable statement last; nothing else.
C12_FourPhasesInOrder ==
    \A t \in Threads :
        (TableOpReturned(t) /\ frame[t].err = NoErr) =>
            LET dialect == DialectOf(frame[t].config.DriverName)
                tables == frame[t].tables
            IN /\ dialect # "none"
               /\ frame[t].issued =
                     <<DisableOf(dialect), EnumerateOf(dialect)>>
                     \o DestructiveUpTo(frame[t].op, dialect, tables, Len(tables))
                     \o <<EnableOf(dialect)>>

\* a drop under postgres has succeeded on two tables: five statements,
\* the two of the tables with CASCADE, the re-enable statement last
C12_Witness ==
    \E t \in Threads :
        /\ TableOpReturned(t) /\ frame[t].err = NoErr
        /\ frame[t].op = "DropAllTables" /\ frame[t].config.DriverName = "postgres"
        /\ Len(frame[t].tables) = 2 /\ Len(frame[t].issued) = 5
        /\ frame[t].issued[4] = "DROP TABLE IF EXISTS t2 CASCADE"
        /\ frame[t].issued[5] = "SET session_replication_role = 'origin'"

\* goroutine t returns in this step from the dialect function of its call
DialectReturns(t) ==
    /\ pc[t] = "ft_read" /\ pc'[t] = "idle"
    /\ frame'[t].issued # <<>>

\* when the statement of the k-th table fails: the statements issued are
\* the disable statement, the enumeration and the statements of the first k
\* tables, and enforcement is left disabled
StopsAtFailedTable(t) ==
    frame'[t].err = "TableError" =>
        LET dialect == DialectOf(frame'[t].config.DriverName)
            k == Len(frame'[t].issued) - 2
        IN /\ k \in 1..Len(frame'[t].tables)
           /\ frame'[t].issued =
                 <<DisableOf(dialect), EnumerateOf(dialect)>>
                 \o DestructiveUpTo(frame'[t].op, dialect, frame'[t].tables, k)
           /\ ~clients'[frame[t].conn].enforced

C17_CachedClientMatchesConfig ==
    \A n \in DOMAIN connections :
        connections[n] # Nil =>
            /\ n \in DOMAIN connConfigs
            /\ clients[connections[n]].driver = connConfigs[n].DriverName
            /\ clients[connections[n]].dsn = connConfigs[n].Dsn

(***************************************************************************)
(* Properties of the splitter (checked under SplitSpec)                    *)
(***************************************************************************)

\* the pieces of a text between its semicolons
RECURSIVE PiecesFrom(_, _)
PiecesFrom(s, cur) ==
    IF s = <<>> THEN <<cur>>
    ELSE IF Head(s) = ";" THEN <<cur>> \o PiecesFrom(Tail(s), <<>>)
    ELSE PiecesFrom(Tail(s), Append(cur, Head(s)))

Blank(s) == \A i \in 1..Len(s) : IsSpace(s[i])

\* the statements of a text: its pieces, without the blank piece that
\* follows a closing semicolon
StatementsOf(text) ==
    LET ps == PiecesFrom(text, <<>>) IN
    IF Blank(ps[Len(ps)]) THEN SubSeq(ps, 1, Len(ps) - 1) ELSE ps

\* the quote that is open after s, read from a place where quote q is open
\* ("" for none): a quote mark opens a literal, the same mark closes it
RECURSIVE OpenQuote(_, _)
OpenQuote(s, q) ==
    IF s = <<>> THEN q
    ELSE IF q = "" THEN OpenQuote(Tail(s), IF Head(s) \in {"'", "\""} THEN Head(s) ELSE "")
    ELSE OpenQuote(Tail(s), IF Head(s) = q THEN "" ELSE q)

\* s begins, after leading white space, with a comment marker
StartsComment(s) ==
    LET r == TrimLeft(s) IN
    \/ (Len(r) >= 1 /\ r[1] = "#")
    \/ (Len(r) >= 2 /\ r[1] = "-" /\ r[2] = "-")
    \/ (Len(r) >= 2 /\ r[1] = "/" /\ r[2] = "*")

\* the positions at which the lines of a text begin
LineStarts(text) == {1} \cup {i + 1 : i \in {j \in 1..Len(text) : text[j] = "\n"}}

\* the line of a text that begins at position i
LineAt(text, i) ==
    LET ends == {j \in i..Len(text) : text[j] = "\n"}
        last == IF ends = {} THEN Len(text)
                ELSE (CHOOSE j \in ends : \A k \in ends : j <= k) - 1
    IN SubSeq(text, i, last)

\* a text made of semicolon-separated statements, each non-empty, not a
\* comment, and with its quotes closed (so that no semicolon lies in a literal)
MadeOfStatements(text) ==
    \A i \in 1..Len(StatementsOf(text)) :
        LET st == StatementsOf(text)[i] IN
        ~Blank(st) /\ ~StartsComment(st) /\ OpenQuote(st, "") = ""

\* no line outside a literal begins with a comment marker: the text holds
\* statements only, no comment lines
NoCommentLines(text) ==
    \A i \in LineStarts(text) :
        OpenQuote(SubSeq(text, 1, i - 1), "") = "" => ~StartsComment(LineAt(text, i))

\* no line at all begins with a comment marker, be it inside a literal
NoMarkerLines(text) ==
    \A i \in LineStarts(text) : ~StartsComment(LineAt(text, i))

Trimmed(s) == s # <<>> /\ ~IsSpace(s[1]) /\ ~IsSpace(s[Len(s)])

\* s without its white space
RECURSIVE Squeeze(_)
Squeeze(s) ==
    IF s = <<>> THEN <<>>
    ELSE IF IsSpace(Head(s)) THEN Squeeze(Tail(s)) ELSE <<Head(s)>> \o Squeeze(Tail(s))

\* the splitter has returned the statements of the text: as many, each
\* trimmed and non-empty, each the text of its statement, in order
SplitsIntoStatements(text, out) ==
    /\ Len(out) = Len(StatementsOf(text))
    /\ \A i \in 1..Len(out) :
          Trimmed(out[i]) /\ Squeeze(out[i]) = Squeeze(StatementsOf(text)[i])

\* the splitter has returned as many statements as the text holds, each
\* trimmed and non-empty
ReturnsAsManyStatements(text, out) ==
    /\ Len(out) = Len(StatementsOf(text))
    /\ \A i \in 1..Len(out) : Trimmed(out[i])

\* C10 as stated: every text made of N statements, with no semicolon in a
\* literal, is split into N trimmed, non-empty statements, with or without a
\* last semicolon.
C10_SplitsEveryText ==
    (sql.done /\ MadeOfStatements(sql.text) /\ NoCommentLines(sql.text)) =>
        ReturnsAsManyStatements(sql.text, sql.statements)

\* C10 as amended: the same, for the texts in which no line begins with a
\* comment marker, inside a literal or outside; the N statements returned
\* are then those of the text, in its order.
C10_SplitsTextWithoutMarkerLines ==
    (sql.done /\ MadeOfStatements(sql.text) /\ NoMarkerLines(sql.text)) =>
        SplitsIntoStatements(sql.text, sql.statements)

\* a text of two statements on two lines, the first with a quoted literal,
\* the last without semicolon, has been split in two
C10_Witness ==
    /\ sql.done
    /\ MadeOfStatements(sql.text) /\ NoMarkerLines(sql.text)
    /\ Len(StatementsOf(sql.text)) = 2
    /\ Len(sql.statements) = 2
    /\ sql.text[Len(sql.text)] # ";"
    /\ \E i \in 1..Len(sql.text) : sql.text[i] = "'"
    /\ \E i \in 1..Len(sql.text) : sql.text[i] = "\n"

(***************************************************************************)
(* Properties of the quote tracking (checked under QuoteSpec)              *)
(***************************************************************************)

\* What each character of a text is, read from position i with quote q
\* open: "" outside a literal (the mark that opens one included), the open
\* quote mark inside a literal (the mark that closes it included), and
\* "comment" on a line that begins with a comment marker outside a literal.
\* A doubled quote inside a literal closes and reopens it at once.
RECURSIVE Lexed(_, _, _, _)
Lexed(text, i, q, acc) ==
    IF i > Len(text) THEN acc
    ELSE IF q = "" /\ i \in LineStarts(text) /\ StartsComment(LineAt(text, i))
    THEN LET n == Len(LineAt(text, i)) IN
         Lexed(text, i + n, "", acc \o [k \in 1..n |-> "comment"])
    ELSE IF q = ""
    THEN Lexed(text, i + 1, IF text[i] \in {"'", "\""} THEN text[i] ELSE "",
               Append(acc, ""))
    ELSE Lexed(text, i + 1, IF text[i] = q THEN "" ELSE q, Append(acc, q))

LexedText(text) == Lexed(text, 1, "", <<>>)

\* the semicolons of a text that lie inside a quoted literal
LiteralSemicolons(text) ==
    {i \in 1..Len(text) : text[i] = ";" /\ LexedText(text)[i] \in {"'", "\""}}

\* the semicolons of a text that lie outside the literals and the comments
BoundarySemicolons(text) ==
    {i \in 1..Len(text) : text[i] = ";" /\ LexedText(text)[i] = ""}

\* a doubled quote inside a literal of the text
HasDoubledQuote(text) ==
    \E i \in 1..(Len(text) - 1) :
        text[i] = text[i + 1] /\ LexedText(text)[i] = text[i]

\* no line that begins inside a literal begins with a comment marker
NoMarkerLineInLiteral(text) ==
    \A i \in LineStarts(text) \cap (1..Len(text)) :
        LexedText(text)[i] \in {"'", "\""} => ~StartsComment(LineAt(text, i))

\* how many semicolons the statements of out hold
RECURSIVE SemicolonsIn(_)
SemicolonsIn(out) ==
    IF out = <<>> THEN 0
    ELSE Cardinality({i \in 1..Len(Head(out)) : Head(out)[i] = ";"})
         + SemicolonsIn(Tail(out))

\* the statements end at boundary semicolons only: there is at most one more
\* of them than the text has semicolons outside its literals
SplitsAtBoundariesOnly(text, out) ==
    Len(out) <= Cardinality(BoundarySemicolons(text)) + 1

\* C11 as stated: in every text the splitter ends no statement at a
\* semicolon that lies inside a single- or double-quoted literal, with or
\* without a doubled-quote escape.
C11_NoSplitInsideLiteral ==
    (sql.done /\ LiteralSemicolons(sql.text) # {}) =>
        SplitsAtBoundariesOnly(sql.text, sql.statements)

\* C11 as amended: the same, for the texts in which no line of a literal
\* begins with a comment marker; the semicolons of the literals are then
\* all kept in the statements returned, and only they.
C11_NoSplitInsideLiteralWithoutMarkerLines ==
    (sql.done /\ NoMarkerLineInLiteral(sql.text)) =>
        /\ SplitsAtBoundariesOnly(sql.text, sql.statements)
        /\ SemicolonsIn(sql.statements) = Cardinality(LiteralSemicolons(sql.text))

\* a text with a literal that holds a doubled quote and a semicolon, and
\* with a semicolon outside it, has been split in two at the latter: one
\* statement returned holds both the doubled quote and the semicolon
C11_Witness ==
    /\ sql.done
    /\ NoMarkerLineInLiteral(sql.text)
    /\ HasDoubledQuote(sql.text)
    /\ LiteralSemicolons(sql.text) # {}
    /\ BoundarySemicolons(sql.text) # {}
    /\ Len(sql.statements) = 2
    /\ SemicolonsIn(sql.statements) = 1
    /\ \E k \in 1..2 : LET st == sql.statements[k] IN
          /\ SemicolonsIn(<<st>>) = 1
          /\ \E i \in 1..(Len(st) - 1) : st[i] = "'" /\ st[i + 1] = "'"

(***************************************************************************)
(* Termination (checked under LiveSpec)                                    *)
(***************************************************************************)

\* a goroutine outside the manager holds no lock: every return path has
\* released the locks that the call acquired
ReturnsWithoutLocks ==
    \A t \in Threads : pc[t] = "idle" => ~Holds(mu, t) /\ ~Holds(migrationMu, t)

\* the places of a call at which the goroutine holds a lock, and the lock:
\* the connection-cache lock is never held while the migration-tracking
\* lock is requested
LockOrder ==
    \A t \in Threads :
        /\ Holds(mu, t) => pc[t] \in {"sd_body", "gc_read", "gc_create", "cl_body",
                                      "ca_body", "ft_read"}
        /\ pc[t] \in {"mo_check", "mo_lock", "mo_recheck"} => ~Holds(mu, t)

\* C20: every call that has started returns, whatever the other goroutine
\* does; a goroutine that has returned holds no lock; and the only nested
\* acquisition is the migration-tracking lock, then the connection-cache
\* lock.  (A call that waits for its first lock waits for calls that have
\* started, which return and release it.)
C20_EveryCallReturns ==
    /\ [](ReturnsWithoutLocks /\ LockOrder)
    /\ \A t \in Threads : (pc[t] # "idle") ~> (pc[t] = "idle")

\* one goroutine waits for the migration-tracking lock that the other
\* holds, while the other, inside RunMigrationOnce, waits for the exclusive
\* connection-cache lock to create the client
C20_Witness ==
    \E t, u \in Threads :
        /\ pc[t] = "mo_lock"
        /\ migrationMu.writer = u
        /\ pc[u] = "gc_lock"

====
